---- MODULE Spec2Model ----
(***************************************************************************)
(* Allocation and reconciliation engine of the CloudFormation deployment   *)
(* portal: the DynamoDB table of access-code records, the stack-deployer,  *)
(* stack-deleter and stack-sync Lambda handlers, and the EventBridge rule  *)
(* that schedules stack-sync.  Every handler invocation is an independent  *)
(* process; one action is one store, CloudFormation or EventBridge call    *)
(* together with the local computation that follows it.                    *)
(***************************************************************************)
EXTENDS Integers, Sequences, FiniteSets, TLC

\* ---------------------------------------------------------------- bounds
NumCodes == 2      \* size of the access-code pool
MaxAllocs == 2     \* stack-deployer invocations in one behaviour
MaxSyncs == 2      \* stack-sync invocations in one behaviour
MaxDeletes == 1    \* stack-deleter invocations in one behaviour
MaxOps == 4        \* handler invocations of any kind in one behaviour
MaxStacks == 2     \* CloudFormation stacks created in one behaviour
MaxFaults == 1     \* failing store / scheduler / CloudFormation calls
MaxBatch == 1      \* largest stackCount requested while invocations interleave
MaxClock == 3      \* schedule intervals the wall clock tells apart
BatchCodes == 5    \* pool size when one stack-deployer runs batches alone
SyncFaults == 2     \* failing calls while stack-sync meets one batch
MaxAttempts == 3    \* largest maxAttempts an ApiClient call passes to withRetry
MaxBaseDelay == 2   \* largest baseDelay, in seconds
MaxDelayCap == 3    \* largest maxDelay, in seconds
LiveCodes == 1     \* pool size when the schedule fires without end

AllocIds == {1, 2}          \* concurrent stack-deployer invocations

VARIABLES
    rec,        \* DynamoDB table: access code -> item (attribute name -> value)
    scan,       \* order in which a Scan of the table returns the keys
    stacks,     \* CloudFormation: stack number -> [tag, status]
    rule,       \* state of the StackSyncScheduleRule
    clock,      \* wall clock, in schedule intervals
    budget,     \* invocations, stacks and failing calls still allowed
    alloc,      \* stack-deployer invocations
    sync,       \* stack-sync invocation
    del,        \* stack-deleter invocation
    calm,       \* history: stack-sync passes in a row that no other handler,
                \* no failing call and, after the first, no stack change disturbed
    client,     \* browser: one ApiClient call inside withRetry
    lookup      \* stack-output-retriever invocation

vars == <<rec, scan, stacks, rule, clock, budget, alloc, sync, del, calm,
          client, lookup>>

Pool == DOMAIN rec

\* ------------------------------------------------------ browser ApiClient
IdleClient ==
    [pc |-> "idle", attempt |-> 0, maxAttempts |-> 0, baseDelay |-> 0,
     maxDelay |-> 0, delays |-> <<>>, last |-> [kind |-> "none"],
     lastError |-> "NONE"]

\* Phrases parseApiError looks for in the message of an error.
Phrases == {"timeout", "not configured", "not found", "CloudFormation", "Access Code"}

\* HTTP statuses an endpoint answers with.
HttpStatuses == {200, 400, 403, 404, 409, 429, 500, 503}

\* What one fetch can come to: no connection, an abort by the timeout, or
\* a response whose body is empty or carries {error: message}.
FetchOutcomes ==
    [kind : {"network"}] \cup [kind : {"abort"}]
    \cup [kind : {"response"}, status : HttpStatuses, body : {"empty"}]
    \cup [kind : {"response"}, status : HttpStatuses \ {200}, body : {"json"},
          phrases : SUBSET Phrases]

\* The error makeRequest's try block throws for an outcome: its class, the
\* status its message carries as "HTTP nnn" (0 when it carries none) and the
\* phrases in the message.
thrownError(o) ==
    CASE o.kind = "network" -> [name |-> "TypeError", fetch |-> TRUE, http |-> 0, phrases |-> {}]
      [] o.kind = "abort" -> [name |-> "AbortError", fetch |-> FALSE, http |-> 0, phrases |-> {}]
      [] o.body = "empty" -> [name |-> "Error", fetch |-> FALSE, http |-> o.status, phrases |-> {}]
      [] OTHER -> [name |-> "Error", fetch |-> FALSE, http |-> 0, phrases |-> o.phrases]

\* parseApiError: the AppError for a thrown error, [code, retryable].
parseApiError(e) ==
    IF e.name = "TypeError" /\ e.fetch
    THEN [code |-> "CONNECTION_FAILED", retryable |-> TRUE]
    ELSE IF e.name = "AbortError" \/ "timeout" \in e.phrases
    THEN [code |-> "TIMEOUT", retryable |-> TRUE]
    ELSE IF e.http # 0
    THEN CASE e.http = 400 -> [code |-> "INVALID_FORMAT", retryable |-> FALSE]
           [] e.http = 401 -> [code |-> "UNAUTHORIZED", retryable |-> FALSE]
           [] e.http = 403 -> [code |-> "FORBIDDEN", retryable |-> FALSE]
           [] e.http = 404 -> [code |-> "NOT_FOUND", retryable |-> FALSE]
           [] e.http = 409 ->
                IF "Access Code" \in e.phrases
                THEN [code |-> "GUID_POOL_EXHAUSTED", retryable |-> FALSE]
                ELSE [code |-> "CONFLICT", retryable |-> TRUE]
           [] e.http = 429 -> [code |-> "RATE_LIMITED", retryable |-> TRUE]
           [] OTHER -> [code |-> "SERVER_ERROR", retryable |-> TRUE]
    ELSE IF "not configured" \in e.phrases
    THEN [code |-> "API_CONFIG_MISSING", retryable |-> FALSE]
    ELSE IF "not found" \in e.phrases
    THEN [code |-> "STACK_NOT_FOUND", retryable |-> FALSE]
    ELSE IF "CloudFormation" \in e.phrases
    THEN [code |-> "CLOUDFORMATION_ERROR", retryable |-> TRUE]
    ELSE [code |-> "UNKNOWN_ERROR", retryable |-> TRUE]

\* makeRequest: code "OK" for a response that is ok, else the AppError
\* thrown.
makeRequest(o) ==
    IF o.kind = "response" /\ o.status = 200 THEN [code |-> "OK", retryable |-> FALSE]
    ELSE parseApiError(thrownError(o))

RECURSIVE Pow2(_)
Pow2(n) == IF n <= 0 THEN 1 ELSE 2 * Pow2(n - 1)

Min(a, b) == IF a < b THEN a ELSE b

\* The delay withRetry waits after a failed attempt (backoffMultiplier 2).
RetryDelay(c) == Min(c.baseDelay * Pow2(c.attempt - 1), c.maxDelay)

\* An ApiClient method enters withRetry with its configuration.
ClientStart(maxAttempts, baseDelay, maxDelay) ==
    /\ client.pc \in {"idle", "returned", "raised"}
    /\ client' = [IdleClient EXCEPT !.pc = "call", !.attempt = 1,
                                    !.maxAttempts = maxAttempts,
                                    !.baseDelay = baseDelay, !.maxDelay = maxDelay]
    /\ UNCHANGED <<lookup, scan, rec, stacks, rule, clock, budget, alloc, sync, del, calm>>

\* One turn of withRetry's loop: the operation, and the catch with its wait.
ClientAttempt(o) ==
    LET r == makeRequest(o)
        c == [client EXCEPT !.last = o]
    IN /\ client.pc = "call"
       /\ client' =
            IF r.code = "OK" THEN [c EXCEPT !.pc = "returned"]
            ELSE IF ~r.retryable \/ client.attempt = client.maxAttempts
            THEN [c EXCEPT !.pc = "raised", !.lastError = r.code]
            ELSE [c EXCEPT !.lastError = r.code, !.attempt = client.attempt + 1,
                           !.delays = Append(client.delays, RetryDelay(client))]
       /\ UNCHANGED <<lookup, scan, rec, stacks, rule, clock, budget, alloc, sync, del, calm>>

\* ------------------------------------------------- stack-output-retriever
IdleLookup ==
    [pc |-> "idle", code |-> 0, record |-> <<>>, isValid |-> FALSE, statusCode |-> 0,
     error |-> "NONE", message |-> "NONE", outputs |-> <<>>]

\* ------------------------------------------------------- DynamoDB items
Has(item, k) == k \in DOMAIN item

Attr(item, k, dflt) == IF k \in DOMAIN item THEN item[k] ELSE dflt

SetAttrs(item, upd) ==
    [k \in DOMAIN item \cup DOMAIN upd |->
        IF k \in DOMAIN upd THEN upd[k] ELSE item[k]]

RemoveAttrs(item, ks) == [k \in DOMAIN item \ ks |-> item[k]]

\* UpdateItem: SET the defined values, REMOVE the undefined ones, and always
\* SET updatedAt.
updateStackRecord(item, sets, removes, now) ==
    RemoveAttrs(SetAttrs(item, sets @@ ("updatedAt" :> now)), removes)

\* PutItem: the item replaces whatever was stored under the key.
putStackRecord(item) == item

\* The item stored under a key, empty when the table has none.
ItemAt(table, id) == IF id \in DOMAIN table THEN table[id] ELSE <<>>

\* The table after a PutItem or UpdateItem on key id, which creates the
\* item when the table has none.
Stored(table, id, item) ==
    [k \in DOMAIN table \cup {id} |-> IF k = id THEN item ELSE table[k]]

\* A record as written by the pool initializer.
InitialRecord == ("status" :> "AVAILABLE") @@ ("updatedAt" :> 0)

\* Order in which a Scan returns the items: the code sorts nothing, the
\* table returns its keys in an order of its own.
ScanOrder(table) == SelectSeq(scan, LAMBDA c : c \in DOMAIN table)

\* The orders a table may keep n + 1 keys in: ascending or descending.
ScanOrders(n) ==
    {[i \in 1..n + 1 |-> i], [i \in 1..n + 1 |-> n + 2 - i]}

RECURSIVE FilterSeq(_, _, _)
FilterSeq(s, table, keepAvailable) ==
    IF s = <<>> THEN <<>>
    ELSE LET rest == FilterSeq(Tail(s), table, keepAvailable)
         IN IF (table[Head(s)]["status"] = "AVAILABLE") = keepAvailable
            THEN <<Head(s)>> \o rest
            ELSE rest

getAvailableAccessCodes(table) == FilterSeq(ScanOrder(table), table, TRUE)

getNonAvailableStackRecords(table) ==
    LET ids == FilterSeq(ScanOrder(table), table, FALSE)
    IN [i \in 1..Len(ids) |-> table[ids[i]] @@ ("guid" :> ids[i])]

SeqRange(s) == {s[i] : i \in 1..Len(s)}

\* Whether one more invocation of handler k may start, and the budget after.
MayStart(k) == budget.endless \/ (budget[k] > 0 /\ budget.ops > 0)

Started(k) ==
    IF budget.endless THEN budget
    ELSE [budget EXCEPT ![k] = @ - 1, !.ops = @ - 1]

\* A failing call uses up one of the failures the behaviour may still see.
Fault(ok, b) == IF ok THEN b ELSE [b EXCEPT !.faults = b.faults - 1]

MayFail(ok) == ok \/ budget.faults > 0

\* The wall clock after one more schedule interval.
Tick(c) == IF c < MaxClock THEN c + 1 ELSE c

\* -------------------------------------------------------- CloudFormation
LiveStatuses ==
    {"CREATE_IN_PROGRESS", "CREATE_COMPLETE", "ROLLBACK_IN_PROGRESS",
     "ROLLBACK_COMPLETE", "DELETE_IN_PROGRESS", "DELETE_FAILED"}

\* Outputs a stack reports once it is complete.
StackOutputs(n) == <<n>>

\* CreationTime a stack reports.
CreationTime(n) == n

\* Lifecycle of a stack inside CloudFormation (OnFailure: ROLLBACK): the
\* statuses a stack in `status` has reached by the time it is next looked at.
CfnReach(status) ==
    CASE status = "CREATE_IN_PROGRESS" ->
            {"CREATE_IN_PROGRESS", "CREATE_COMPLETE", "ROLLBACK_IN_PROGRESS",
             "ROLLBACK_COMPLETE"}
      [] status = "ROLLBACK_IN_PROGRESS" -> {"ROLLBACK_IN_PROGRESS", "ROLLBACK_COMPLETE"}
      [] status = "DELETE_IN_PROGRESS" ->
            {"DELETE_IN_PROGRESS", "DELETE_COMPLETE", "DELETE_FAILED", "NOT_EXIST"}
      [] status = "DELETE_COMPLETE" -> {"DELETE_COMPLETE", "NOT_EXIST"}
      [] OTHER -> {status}

StackStatuses ==
    LiveStatuses \cup {"DELETE_COMPLETE", "NOT_EXIST"}

\* DeleteStack by stack name: starts the deletion of the live stack of that
\* name, and succeeds without effect when there is none.
DeleteStackEffect(st, n) ==
    IF n \in DOMAIN st /\ st[n].status \in LiveStatuses
    THEN [st EXCEPT ![n].status = "DELETE_IN_PROGRESS"]
    ELSE st

\* ------------------------------------------------------- stack-deployer
IdleAlloc ==
    [pc |-> "idle", count |-> 0, selected |-> <<>>, assigned |-> <<>>, i |-> 0,
     successful |-> 0, failed |-> 0, results |-> <<>>, stackId |-> 0,
     activeCount |-> 0, ruleSeen |-> "NONE", error |-> "NONE",
     details |-> <<>>, ruleCall |-> "NONE"]

AllocEnded(a) == alloc[a].pc \in {"idle", "returned", "raised"}

NeverDuplicates(s) == FALSE

HasDuplicates(s) == \E i, j \in 1..Len(s) : i # j /\ s[i] = s[j]

\* The configured pool size; the pool is created with that many codes.
accessCodePoolSize(table) == Cardinality(DOMAIN table)

\* validateStackCount for a whole number: the error it throws, if any.
validateStackCount(table, count) ==
    IF count <= 0
    THEN [error |-> "INVALID_STACK_COUNT_RANGE", details |-> [provided |-> count]]
    ELSE IF count > accessCodePoolSize(table)
    THEN [error |-> "STACK_COUNT_EXCEEDS_POOL",
          details |-> [provided |-> count, maximum |-> accessCodePoolSize(table)]]
    ELSE [error |-> "NONE", details |-> <<>>]

\* assignAccessCodes without the shortage check of the auto-assign branch.
assignIgnoringShortage(table, count, selected) ==
    LET available == getAvailableAccessCodes(table)
        n == IF Len(available) < count THEN Len(available) ELSE count
    IN [error |-> "NONE", details |-> <<>>, ids |-> SubSeq(available, 1, n)]

\* assignAccessCodes taking explicitly selected codes as they come.
assignUnvalidated(table, count, selected) ==
    LET available == getAvailableAccessCodes(table)
    IN IF Len(selected) > 0
       THEN [error |-> "NONE", details |-> <<>>, ids |-> selected]
       ELSE IF Len(available) < count
            THEN [error |-> "INSUFFICIENT_ACCESS_CODES",
                  details |-> [requested |-> count, available |-> Len(available),
                               total |-> Cardinality(DOMAIN table)],
                  ids |-> <<>>]
            ELSE [error |-> "NONE", details |-> <<>>, ids |-> SubSeq(available, 1, count)]

\* assignAccessCodes: the ids of the batch, or the error it throws with the
\* details the error carries.
assignAccessCodes(table, count, selected) ==
    LET available == getAvailableAccessCodes(table)
        Raise(e, d) == [error |-> e, details |-> d, ids |-> <<>>]
    IN IF Len(selected) > 0
       THEN IF Len(selected) # count
            THEN Raise("ACCESS_CODE_COUNT_MISMATCH",
                       [selectedCount |-> Len(selected), requestedCount |-> count])
            ELSE IF \E i \in 1..Len(selected) : selected[i] \notin DOMAIN table
            THEN Raise("INVALID_ACCESS_CODES",
                       [invalidAccessCodes |-> SelectSeq(selected, LAMBDA c : c \notin DOMAIN table)])
            ELSE IF \E i \in 1..Len(selected) : selected[i] \notin SeqRange(available)
            THEN Raise("ACCESS_CODES_NOT_AVAILABLE",
                       [unavailableAccessCodes |->
                            SelectSeq(selected, LAMBDA c : c \notin SeqRange(available)),
                        availableAccessCodes |-> Len(available)])
            ELSE IF HasDuplicates(selected)
            THEN Raise("DUPLICATE_ACCESS_CODES",
                       [duplicates |->
                            [k \in {i \in 1..Len(selected) :
                                       \E j \in 1..i - 1 : selected[j] = selected[i]}
                               |-> selected[k]]])
            ELSE [error |-> "NONE", details |-> <<>>, ids |-> selected]
       ELSE IF Len(available) < count
            THEN Raise("INSUFFICIENT_ACCESS_CODES",
                       [requested |-> count, available |-> Len(available),
                        total |-> Cardinality(DOMAIN table)])
            ELSE [error |-> "NONE", details |-> <<>>, ids |-> SubSeq(available, 1, count)]

\* deployStacks up to the start of the loop.  The first invocation takes
\* slot 1.
\* validateStackCount comes first; a failing read of the pool raises.
DeployStart(a, count, selected, ok) ==
    /\ AllocEnded(a)
    /\ a > 1 => alloc[a - 1].pc # "idle"
    /\ MayStart("alloc")
    /\ MayFail(ok)
    /\ budget' = Fault(ok, Started("alloc"))
    /\ LET v == validateStackCount(rec, count)
           r == assignAccessCodes(rec, count, selected)
           Raised(e, d) == [IdleAlloc EXCEPT !.pc = "raised", !.count = count,
                                             !.selected = selected,
                                             !.error = e, !.details = d]
       IN alloc' = [alloc EXCEPT ![a] =
            IF v.error # "NONE" THEN Raised(v.error, v.details)
            ELSE IF ~ok THEN Raised("DYNAMODB_ERROR", <<>>)
            ELSE IF r.error # "NONE" THEN Raised(r.error, r.details)
            ELSE [IdleAlloc EXCEPT !.pc = "create", !.count = count,
                                   !.selected = selected, !.assigned = r.ids]]
    /\ UNCHANGED <<client, lookup, scan, rec, stacks, rule, clock, sync, del>>
    /\ calm' = 0

\* The loop leaving the batch after its first stack.
AfterFirstStack(p) ==
    IF p.successful > 0 THEN [p EXCEPT !.i = p.i + 1, !.pc = "count", !.stackId = 0]
    ELSE [p EXCEPT !.i = p.i + 1, !.pc = "returned", !.stackId = 0]

\* Where the loop goes after the i-th stack has been handled.
AfterStack(p) ==
    IF p.i + 1 < p.count THEN [p EXCEPT !.i = p.i + 1, !.pc = "create", !.stackId = 0]
    ELSE IF p.successful > 0 THEN [p EXCEPT !.i = p.i + 1, !.pc = "count", !.stackId = 0]
    ELSE [p EXCEPT !.i = p.i + 1, !.pc = "returned", !.stackId = 0]

\* CreateStackCommand for assignedAccessCodes[i].
DeployCreate(a, ok) ==
    LET p == alloc[a]
        code == p.assigned[p.i + 1]
        n == Len(stacks) + 1
    IN /\ p.pc = "create"
       /\ IF ok
          THEN /\ budget.stacks > 0
               /\ budget' = [budget EXCEPT !.stacks = @ - 1]
               /\ stacks' = Append(stacks, [tag |-> code, status |-> "CREATE_IN_PROGRESS"])
               /\ alloc' = [alloc EXCEPT ![a] =
                    [p EXCEPT !.pc = "put", !.stackId = n,
                              !.results = Append(p.results, "CREATE_IN_PROGRESS")]]
          ELSE /\ alloc' = [alloc EXCEPT ![a] =
                    [p EXCEPT !.pc = "reset", !.failed = p.failed + 1,
                              !.results = Append(p.results, "CREATE_FAILED")]]
               /\ UNCHANGED <<stacks, budget>>
       /\ UNCHANGED <<client, lookup, scan, rec, rule, clock, sync, del>>
       /\ calm' = 0

\* The record written for a created stack.
DeployedRecord(n, now) ==
    [stackArn |-> n, stackName |-> n, stackId |-> n,
     status |-> "CREATE_IN_PROGRESS", createdAt |-> CreationTime(n),
     updatedAt |-> now]

\* putStackRecord for the created stack; a failure is logged only.
DeployPut(a, ok) ==
    LET p == alloc[a]
        code == p.assigned[p.i + 1]
    IN /\ p.pc = "put"
       /\ MayFail(ok)
       /\ budget' = Fault(ok, budget)
       /\ rec' = IF ok
                 THEN Stored(rec, code, putStackRecord(DeployedRecord(p.stackId, clock)))
                 ELSE rec
       /\ alloc' = [alloc EXCEPT ![a] = AfterStack([p EXCEPT !.successful = p.successful + 1])]
       /\ UNCHANGED <<client, lookup, scan, stacks, rule, clock, sync, del>>
       /\ calm' = 0

\* The update that puts a code back after a failed creation.
ResetAfterFailure(item, now) ==
    updateStackRecord(item, ("status" :> "AVAILABLE"),
                      {"stackArn", "stackName", "stackId", "createdAt"}, now)

\* Every creation fails: the threshold as it would be if only a wholly
\* failed batch were given up.
AllFailed(p) == p.failed >= p.count

\* More than half of the requested stacks have failed.
TooManyFailures(p) == 2 * p.failed > p.count

\* updateStackRecord after a failed creation, then the failure threshold.
DeployReset(a, ok) ==
    LET p == alloc[a]
        code == p.assigned[p.i + 1]
    IN /\ p.pc = "reset"
       /\ MayFail(ok)
       /\ budget' = Fault(ok, budget)
       /\ rec' = IF ok
                 THEN Stored(rec, code, ResetAfterFailure(ItemAt(rec, code), clock))
                 ELSE rec
       /\ alloc' = [alloc EXCEPT ![a] =
            IF TooManyFailures(p)
            THEN [p EXCEPT !.pc = "raised", !.error = "DEPLOYMENT_BATCH_FAILED",
                           !.details = [successful |-> p.successful,
                                        failed |-> p.failed, total |-> p.count]]
            ELSE AfterStack(p)]
       /\ UNCHANGED <<client, lookup, scan, stacks, rule, clock, sync, del>>
       /\ calm' = 0

\* ------------------------------------------------ EventBridgeManager
\* getCurrentRuleState / enableSyncRule / disableSyncRule act on `rule`.
\* What manageRuleBasedOnStackCount does to the rule it saw.
ManageDecision(activeCount, ruleSeen) ==
    IF activeCount > 0 /\ ruleSeen # "ENABLED" THEN "enable"
    ELSE IF ~(activeCount > 0) /\ ruleSeen = "ENABLED" THEN "disable"
    ELSE "none"

\* ensureRuleDisabled disabling the rule whatever state it saw.
AlwaysDisable(ruleSeen) == "disable"

\* What ensureRuleDisabled does to the rule it saw.
EnsureDisabledDecision(ruleSeen) ==
    IF ruleSeen # "DISABLED" THEN "disable" ELSE "none"

ApplyDecision(d, r) ==
    CASE d = "enable" -> "ENABLED"
      [] d = "disable" -> "DISABLED"
      [] OTHER -> r

\* deployStacks returns; ruleCall keeps what the rule management did.
Returned(p, call) ==
    [p EXCEPT !.pc = "returned", !.i = 0, !.stackId = 0, !.activeCount = 0,
              !.ruleSeen = "NONE", !.ruleCall = call]

\* manageRuleBasedOnStackCount, first call: checkActiveStackCount.
ManageCount(a, ok) ==
    LET p == alloc[a]
    IN /\ p.pc = "count"
       /\ MayFail(ok)
       /\ budget' = Fault(ok, budget)
       /\ alloc' = [alloc EXCEPT ![a] =
            IF ok
            THEN [p EXCEPT !.pc = "getrule",
                           !.activeCount = Len(getNonAvailableStackRecords(rec))]
            ELSE Returned(p, "fault")]
       /\ UNCHANGED <<client, lookup, scan, rec, stacks, rule, clock, sync, del>>
       /\ calm' = 0

\* manageRuleBasedOnStackCount, second call: getCurrentRuleState.
ManageGetRule(a, ok) ==
    LET p == alloc[a]
    IN /\ p.pc = "getrule"
       /\ MayFail(ok)
       /\ budget' = Fault(ok, budget)
       /\ alloc' = [alloc EXCEPT ![a] =
            IF ~ok THEN Returned(p, "fault")
            ELSE IF ManageDecision(p.activeCount, rule) = "none"
            THEN Returned(p, IF rule = "ENABLED" THEN "keptEnabled" ELSE "keptDisabled")
            ELSE [p EXCEPT !.pc = "setrule", !.ruleSeen = rule]]
       /\ UNCHANGED <<client, lookup, scan, rec, stacks, rule, clock, sync, del>>
       /\ calm' = 0

\* manageRuleBasedOnStackCount, third call: enableSyncRule or disableSyncRule.
ManageSetRule(a, ok) ==
    LET p == alloc[a]
        d == ManageDecision(p.activeCount, p.ruleSeen)
    IN /\ p.pc = "setrule"
       /\ MayFail(ok)
       /\ budget' = Fault(ok, budget)
       /\ rule' = IF ok THEN ApplyDecision(d, rule) ELSE rule
       /\ alloc' = [alloc EXCEPT ![a] = Returned(p, IF ok THEN d ELSE "fault")]
       /\ UNCHANGED <<client, lookup, scan, rec, stacks, clock, sync, del>>
       /\ calm' = 0

\* ------------------------------------------------------------ stack-sync
IdleSync ==
    [pc |-> "idle", snapshot |-> <<>>, idx |-> 0, desc |-> "NONE",
     totalProcessed |-> 0, successfulSyncs |-> 0, failedSyncs |-> 0,
     errors |-> <<>>, validated |-> "NONE", ruleSeen |-> "NONE",
     ruleCall |-> "NONE"]

SyncEnded == sync.pc \in {"idle", "returned"}

\* syncAllStacks returns its result; the handler passes it on.
SyncReturned(s, call) ==
    [s EXCEPT !.pc = "returned", !.snapshot = <<>>, !.idx = 0, !.desc = "NONE",
              !.ruleSeen = "NONE", !.ruleCall = call]

\* The schedule fires: handler + syncAllStacks up to the loop, reading the
\* non-AVAILABLE records.  A failing read makes the handler return its
\* error result.
SyncStart(ok) ==
    /\ SyncEnded
    /\ rule = "ENABLED"
    /\ MayStart("sync")
    /\ MayFail(ok)
    /\ budget' = Fault(ok, Started("sync"))
    /\ clock' = Tick(clock)
    /\ sync' = IF ok
               THEN LET snap == getNonAvailableStackRecords(rec)
                    IN [IdleSync EXCEPT
                          !.pc = IF Len(snap) = 0 THEN "validate" ELSE "describe",
                          !.snapshot = snap, !.idx = 1, !.totalProcessed = Len(snap)]
               ELSE [IdleSync EXCEPT !.pc = "returned", !.failedSyncs = 1,
                                     !.errors = <<"SYNC_PROCESS">>]
    /\ UNCHANGED <<client, lookup, scan, rec, stacks, rule, alloc, del>>
    /\ calm' = IF ok THEN (IF calm < 2 THEN calm + 1 ELSE 2) ELSE 0

\* The loop of syncAllStacks giving up the pass at the first failed record.
AfterRecordGivingUp(s, success) ==
    IF success
    THEN [s EXCEPT !.successfulSyncs = s.successfulSyncs + 1,
                   !.idx = s.idx + 1, !.desc = "NONE",
                   !.pc = IF s.idx < Len(s.snapshot) THEN "describe" ELSE "validate"]
    ELSE SyncReturned([s EXCEPT !.failedSyncs = s.failedSyncs + 1], "NONE")

\* The loop of syncAllStacks after the record at idx gave `success`.
AfterRecord(s, success) ==
    LET t == IF success
             THEN [s EXCEPT !.successfulSyncs = s.successfulSyncs + 1]
             ELSE [s EXCEPT !.failedSyncs = s.failedSyncs + 1,
                            !.errors = Append(s.errors, s.snapshot[s.idx]["guid"])]
    IN [t EXCEPT !.idx = s.idx + 1, !.desc = "NONE",
                 !.pc = IF s.idx < Len(s.snapshot) THEN "describe" ELSE "validate"]

\* A record without stackArn counted as a failed sync.
SkipFailure == FALSE

\* What syncStackRecord returns as `success` for a record without stackArn.
SkipSuccess == TRUE

\* syncStackRecord up to the DescribeStacks answer (the status the stack
\* has reached, or "NOT_EXIST" once the deleted stack is no longer known);
\* a record without stackArn is skipped as a success.
SyncDescribe(ok, status) ==
    LET r == sync.snapshot[sync.idx]
        called == Has(r, "stackArn")
    IN /\ sync.pc = "describe"
       /\ MayFail(ok)
       /\ ~called => ok
       /\ IF called /\ ok
          THEN status \in CfnReach(stacks[r["stackArn"]].status)
          ELSE status = "NONE"
       /\ budget' = Fault(ok, budget)
       /\ stacks' = IF called /\ ok
                    THEN [stacks EXCEPT ![r["stackArn"]].status = status]
                    ELSE stacks
       /\ sync' = IF ~called THEN AfterRecord(sync, SkipSuccess)
                  ELSE IF ok
                  THEN [sync EXCEPT !.pc = "write", !.desc = status]
                  ELSE [sync EXCEPT !.pc = "syncerror"]
       /\ UNCHANGED <<client, lookup, scan, rec, rule, clock, alloc, del>>
       /\ calm' = IF ok /\ (stacks' = stacks \/ calm < 2) THEN calm ELSE 0

\* The fields the stack-deployer removes when it puts a code back.
ResetFieldsOfDeployer == {"stackArn", "stackName", "stackId", "createdAt"}

ResetFields == {"stackArn", "stackName", "stackId", "outputs", "createdAt"}

\* The fields syncStackRecord sets for an existing stack that is not
\* DELETE_COMPLETE: only those that differ from the record it was given.
SyncDiff(r, n, status) ==
    (IF Attr(r, "status", "NONE") # status THEN ("status" :> status) ELSE <<>>)
    @@ (IF Attr(r, "stackName", 0) # n THEN ("stackName" :> n) ELSE <<>>)
    @@ (IF Attr(r, "stackId", 0) # n THEN ("stackId" :> n) ELSE <<>>)
    @@ (IF ~Has(r, "createdAt") THEN ("createdAt" :> CreationTime(n)) ELSE <<>>)
    @@ (IF status \in {"CREATE_COMPLETE", "UPDATE_COMPLETE"}
           /\ Attr(r, "outputs", <<>>) # StackOutputs(n)
        THEN ("outputs" :> StackOutputs(n)) ELSE <<>>)

\* SyncUpdates with the unchanged-record update also dropping the outputs.
SyncUpdatesDroppingOutputs(r, desc, now) ==
    IF desc \in {"NOT_EXIST", "DELETE_COMPLETE"}
    THEN [sets |-> ("lastSyncAt" :> now) @@ ("status" :> "AVAILABLE"),
          removes |-> ResetFields \cup {"syncError"}]
    ELSE LET d == SyncDiff(r, r["stackArn"], desc)
         IN IF DOMAIN d # {}
            THEN [sets |-> ("lastSyncAt" :> now) @@ d, removes |-> {"syncError"}]
            ELSE [sets |-> ("lastSyncAt" :> now), removes |-> {"outputs"}]

\* The update syncStackRecord sends: [sets, removes].
SyncUpdates(r, desc, now) ==
    IF desc \in {"NOT_EXIST", "DELETE_COMPLETE"}
    THEN [sets |-> ("lastSyncAt" :> now) @@ ("status" :> "AVAILABLE"),
          removes |-> ResetFields \cup {"syncError"}]
    ELSE LET d == SyncDiff(r, r["stackArn"], desc)
         IN IF DOMAIN d # {}
            THEN [sets |-> ("lastSyncAt" :> now) @@ d, removes |-> {"syncError"}]
            ELSE [sets |-> ("lastSyncAt" :> now), removes |-> {}]

\* syncStackRecord: the updateStackRecord after the describe.
SyncWrite(ok) ==
    LET r == sync.snapshot[sync.idx]
        u == SyncUpdates(r, sync.desc, clock)
    IN /\ sync.pc = "write"
       /\ MayFail(ok)
       /\ budget' = Fault(ok, budget)
       /\ rec' = IF ok
                 THEN Stored(rec, r["guid"],
                             updateStackRecord(ItemAt(rec, r["guid"]), u.sets,
                                               u.removes, clock))
                 ELSE rec
       /\ sync' = IF ok THEN AfterRecord(sync, TRUE)
                  ELSE [sync EXCEPT !.pc = "syncerror"]
       /\ UNCHANGED <<client, lookup, scan, stacks, rule, clock, alloc, del>>
       /\ calm' = IF ok THEN calm ELSE 0

\* syncStackRecord's catch block: record the error, best effort.
SyncError(ok) ==
    LET r == sync.snapshot[sync.idx]
    IN /\ sync.pc = "syncerror"
       /\ MayFail(ok)
       /\ budget' = Fault(ok, budget)
       /\ rec' = IF ok
                 THEN Stored(rec, r["guid"],
                             updateStackRecord(ItemAt(rec, r["guid"]),
                                               ("syncError" :> "error") @@
                                               ("lastSyncAt" :> clock), {}, clock))
                 ELSE rec
       /\ sync' = AfterRecord(sync, FALSE)
       /\ UNCHANGED <<client, lookup, scan, stacks, rule, clock, alloc, del>>
       /\ calm' = IF ok THEN calm ELSE 0

\* validateAllStacksDeletionComplete taking a failed read for "complete".
validateAssumingComplete(table, ok) ==
    IF ok THEN Len(getNonAvailableStackRecords(table)) = 0 ELSE TRUE

\* validateAllStacksDeletionComplete: a failed read counts as "not complete".
validateAllStacksDeletionComplete(table, ok) ==
    IF ok THEN Len(getNonAvailableStackRecords(table)) = 0 ELSE FALSE

SyncValidate(ok) ==
    /\ sync.pc = "validate"
    /\ MayFail(ok)
    /\ budget' = Fault(ok, budget)
    /\ LET done == validateAllStacksDeletionComplete(rec, ok)
       IN sync' = IF done
                  THEN [sync EXCEPT !.validated = "zero", !.pc = "getrule"]
                  ELSE SyncReturned([sync EXCEPT !.validated =
                           IF ok THEN "nonzero" ELSE "failed"], "NONE")
    /\ UNCHANGED <<client, lookup, scan, rec, stacks, rule, clock, alloc, del>>
    /\ calm' = IF ok THEN calm ELSE 0

\* ensureRuleDisabled, first call: getCurrentRuleState.
SyncGetRule(ok) ==
    /\ sync.pc = "getrule"
    /\ MayFail(ok)
    /\ budget' = Fault(ok, budget)
    /\ sync' = IF ~ok THEN SyncReturned(sync, "fault")
               ELSE IF EnsureDisabledDecision(rule) = "none"
               THEN SyncReturned(sync, "none")
               ELSE [sync EXCEPT !.ruleSeen = rule, !.pc = "setrule"]
    /\ UNCHANGED <<client, lookup, scan, rec, stacks, rule, clock, alloc, del>>
    /\ calm' = IF ok THEN calm ELSE 0

\* ensureRuleDisabled, second call: disableSyncRule.
SyncSetRule(ok) ==
    LET d == EnsureDisabledDecision(sync.ruleSeen)
    IN /\ sync.pc = "setrule"
       /\ MayFail(ok)
       /\ budget' = Fault(ok, budget)
       /\ rule' = IF ok THEN ApplyDecision(d, rule) ELSE rule
       /\ sync' = SyncReturned(sync, IF ok THEN d ELSE "fault")
       /\ UNCHANGED <<client, lookup, scan, rec, stacks, clock, alloc, del>>
       /\ calm' = IF ok THEN calm ELSE 0

\* ---------------------------------------------------------- stack-deleter
IdleDel ==
    [pc |-> "idle", mode |-> "NONE", code |-> 0, tasks |-> <<>>, error |-> "NONE"]

DelEnded == del.pc \in {"idle", "returned", "raised"}

InProgressStates ==
    {"CREATE_IN_PROGRESS", "ROLLBACK_IN_PROGRESS", "UPDATE_IN_PROGRESS",
     "UPDATE_ROLLBACK_IN_PROGRESS", "REVIEW_IN_PROGRESS"}

\* A record counts as a stack whenever it is not AVAILABLE.
IsNotAvailable(item) == item["status"] # "AVAILABLE"

\* findStackByAccessCode: the record counts as a stack only when it is not
\* AVAILABLE and has a stackArn.
IsActiveStack(item) == item["status"] # "AVAILABLE" /\ Has(item, "stackArn")

\* deleteStackByAccessCode up to the DeleteStack call.
DeleteOneStart(id, ok) ==
    /\ DelEnded
    /\ MayStart("del")
    /\ MayFail(ok)
    /\ budget' = Fault(ok, Started("del"))
    /\ LET item == rec[id]
           d == [IdleDel EXCEPT !.mode = "one", !.code = id]
           name == Attr(item, "stackName", 0)
       IN del' =
            IF ~ok THEN [d EXCEPT !.pc = "raised", !.error = "DYNAMODB_ERROR"]
            ELSE IF ~IsActiveStack(item)
            THEN [d EXCEPT !.pc = "raised", !.error = "STACK_NOT_FOUND"]
            ELSE IF item["status"] = "DELETE_IN_PROGRESS"
            THEN [d EXCEPT !.pc = "returned",
                           !.tasks = (id :> [pc |-> "done", name |-> name,
                                             outcome |-> "ALREADY_DELETING"])]
            ELSE IF item["status"] \in InProgressStates
            THEN [d EXCEPT !.pc = "raised", !.error = "STACK_OPERATION_IN_PROGRESS"]
            ELSE [d EXCEPT !.pc = "running",
                           !.tasks = (id :> [pc |-> "call", name |-> name,
                                             outcome |-> "NONE"])]
    /\ UNCHANGED <<client, lookup, scan, rec, stacks, rule, clock, alloc, sync>>
    /\ calm' = 0

\* deleteStackByAccessCode: the DeleteStackCommand.
DeleteOneCall(id, ok) ==
    /\ del.pc = "running" /\ del.mode = "one"
    /\ id \in DOMAIN del.tasks
    /\ del.tasks[id].pc = "call"
    /\ MayFail(ok)
    /\ budget' = Fault(ok, budget)
    /\ stacks' = IF ok THEN DeleteStackEffect(stacks, del.tasks[id].name) ELSE stacks
    /\ del' = IF ok
              THEN [del EXCEPT !.tasks[id].pc = "write"]
              ELSE [del EXCEPT !.pc = "raised", !.error = "CLOUDFORMATION_ERROR",
                               !.tasks[id].pc = "done",
                               !.tasks[id].outcome = "DELETE_FAILED"]
    /\ UNCHANGED <<client, lookup, scan, rec, rule, clock, alloc, sync>>
    /\ calm' = 0

\* The update both deletion paths send after DeleteStack succeeded.
MarkDeleting(item, now) ==
    updateStackRecord(item, ("status" :> "DELETE_IN_PROGRESS"), {}, now)

\* deleteStackByAccessCode: the status update, best effort, then success.
DeleteOneWrite(id, ok) ==
    /\ del.pc = "running" /\ del.mode = "one"
    /\ id \in DOMAIN del.tasks
    /\ del.tasks[id].pc = "write"
    /\ MayFail(ok)
    /\ budget' = Fault(ok, budget)
    /\ rec' = IF ok THEN Stored(rec, id, MarkDeleting(ItemAt(rec, id), clock)) ELSE rec
    /\ del' = [del EXCEPT !.pc = "returned", !.tasks[id].pc = "done",
                          !.tasks[id].outcome = "DELETE_INITIATED"]
    /\ UNCHANGED <<client, lookup, scan, stacks, rule, clock, alloc, sync>>
    /\ calm' = 0

\* No status keeps a stack from being deleted.
NoGuard(status) == "NONE"

\* The outcome deleteAllStacks gives a stack before any call is made.
BulkGuard(status) ==
    IF status = "DELETE_IN_PROGRESS" THEN "ALREADY_DELETING"
    ELSE IF status \in InProgressStates THEN "OPERATION_IN_PROGRESS"
    ELSE "NONE"

\* deleteAllStacks keeps running until every deletion promise has settled.
BulkSettled(d) ==
    IF \A id \in DOMAIN d.tasks : d.tasks[id].pc = "done"
    THEN [d EXCEPT !.pc = "returned"] ELSE d

\* deleteAllStacks up to the first DeleteStack call: getAllActiveStacks and
\* the status guards of every deletion promise.
DeleteAllStart(ok) ==
    /\ DelEnded
    /\ MayStart("del")
    /\ MayFail(ok)
    /\ budget' = Fault(ok, Started("del"))
    /\ LET active == {id \in Pool : IsActiveStack(rec[id])}
           d == [IdleDel EXCEPT !.mode = "all"]
       IN del' =
            IF ~ok THEN [d EXCEPT !.pc = "raised", !.error = "DYNAMODB_ERROR"]
            ELSE BulkSettled([d EXCEPT !.pc = "running", !.tasks =
                   [id \in active |->
                      LET g == BulkGuard(rec[id]["status"])
                      IN [pc |-> IF g = "NONE" THEN "call" ELSE "done",
                          name |-> Attr(rec[id], "stackName", 0),
                          outcome |-> g]]])
    /\ UNCHANGED <<client, lookup, scan, rec, stacks, rule, clock, alloc, sync>>
    /\ calm' = 0

\* One deletion promise of deleteAllStacks: the DeleteStackCommand.
DeleteAllCall(id, ok) ==
    /\ del.pc = "running" /\ del.mode = "all"
    /\ id \in DOMAIN del.tasks
    /\ del.tasks[id].pc = "call"
    /\ MayFail(ok)
    /\ budget' = Fault(ok, budget)
    /\ stacks' = IF ok THEN DeleteStackEffect(stacks, del.tasks[id].name) ELSE stacks
    /\ del' = IF ok
              THEN [del EXCEPT !.tasks[id].pc = "write",
                               !.tasks[id].outcome = "DELETE_INITIATED"]
              ELSE BulkSettled([del EXCEPT !.tasks[id].pc = "done",
                                           !.tasks[id].outcome = "DELETE_FAILED"])
    /\ UNCHANGED <<client, lookup, scan, rec, rule, clock, alloc, sync>>
    /\ calm' = 0

\* One deletion promise of deleteAllStacks: the status update, best effort.
DeleteAllWrite(id, ok) ==
    /\ del.pc = "running" /\ del.mode = "all"
    /\ id \in DOMAIN del.tasks
    /\ del.tasks[id].pc = "write"
    /\ MayFail(ok)
    /\ budget' = Fault(ok, budget)
    /\ rec' = IF ok THEN Stored(rec, id, MarkDeleting(ItemAt(rec, id), clock)) ELSE rec
    /\ del' = BulkSettled([del EXCEPT !.tasks[id].pc = "done"])
    /\ UNCHANGED <<client, lookup, scan, stacks, rule, clock, alloc, sync>>
    /\ calm' = 0

\* isComplete taking every status that is not in progress for complete.
isSettled(status) ==
    status \notin InProgressStates \cup {"DELETE_IN_PROGRESS"}

\* The isComplete flag of the status switch: the deletion has ended.
isComplete(status) == status \in {"DELETE_COMPLETE", "DELETE_FAILED"}

\* getDeletionStatus: the stored status of the code's stack; a code without
\* a stack reads as deleted.
getDeletionStatus(table, id) ==
    IF ~IsActiveStack(ItemAt(table, id))
    THEN [status |-> "DELETE_COMPLETE", isComplete |-> TRUE]
    ELSE [status |-> table[id]["status"],
          isComplete |-> isComplete(table[id]["status"])]

\* getAllDeletionStatus: one entry for every record that is not AVAILABLE
\* and has a stackArn.
getAllDeletionStatus(table) ==
    [id \in {c \in DOMAIN table : IsActiveStack(table[c])} |->
        [status |-> table[id]["status"],
         isComplete |-> isComplete(table[id]["status"])]]

\* GET of the deletion status of one code: getDeletionStatus.
StatusOne(id, ok) ==
    /\ DelEnded
    /\ MayFail(ok)
    /\ budget' = Fault(ok, budget)
    /\ del' = IF ok
              THEN [IdleDel EXCEPT !.pc = "returned", !.mode = "status", !.code = id,
                                   !.tasks = (id :> getDeletionStatus(rec, id))]
              ELSE [IdleDel EXCEPT !.pc = "raised", !.mode = "status", !.code = id,
                                   !.error = "DYNAMODB_ERROR"]
    /\ UNCHANGED <<client, lookup, scan, rec, stacks, rule, clock, alloc, sync>>
    /\ calm' = 0

\* GET of the deletion status of all stacks: getAllDeletionStatus.
StatusAll(ok) ==
    /\ DelEnded
    /\ MayFail(ok)
    /\ budget' = Fault(ok, budget)
    /\ del' = IF ok
              THEN [IdleDel EXCEPT !.pc = "returned", !.mode = "statusAll",
                                   !.tasks = getAllDeletionStatus(rec)]
              ELSE [IdleDel EXCEPT !.pc = "raised", !.mode = "statusAll",
                                   !.error = "DYNAMODB_ERROR"]
    /\ UNCHANGED <<client, lookup, scan, rec, stacks, rule, clock, alloc, sync>>
    /\ calm' = 0

\* ------------------------------------------------- stack-output-retriever
\* The codes a request may carry: the codes of the pool, a well-formed code
\* that is not in the pool (the last one) and a malformed one (the first).
LookupCodes == 0..NumCodes + 1

\* uuidRegex.test: whether the code has the format of an access code.
uuidRegex(code) == code > 0

validOutputStates == {"CREATE_COMPLETE", "UPDATE_COMPLETE"}

\* errorStates without the rollback-complete statuses.
failedStates ==
    {"CREATE_FAILED", "ROLLBACK_FAILED", "UPDATE_FAILED", "UPDATE_ROLLBACK_FAILED",
     "DELETE_FAILED"}

errorStates ==
    {"CREATE_FAILED", "ROLLBACK_COMPLETE", "ROLLBACK_FAILED", "UPDATE_FAILED",
     "UPDATE_ROLLBACK_COMPLETE", "UPDATE_ROLLBACK_FAILED", "DELETE_FAILED"}

LookupEnded == lookup.pc \in {"idle", "returned", "raised"}

LambdaError(l, statusCode, error, message) ==
    [l EXCEPT !.pc = "raised", !.statusCode = statusCode, !.error = error,
              !.message = message]

\* validateAccessCode: the code is well formed and a second read of the
\* table finds a record; a failing read counts as no record.
validateAccessCode(table, code, ok) == uuidRegex(code) /\ ok /\ code \in DOMAIN table

\* The condition under which findStackByAccessCode returns a stack.
FoundStack(r, isValid) ==
    /\ DOMAIN r # {}
    /\ isValid
    /\ r["status"] # "AVAILABLE"
    /\ Has(r, "stackArn")

\* The outputs DescribeStacks reports for stack n in the status it has
\* reached: those of a created stack, which a stack being deleted may
\* still report.
DescribedOutputs(n, status) ==
    IF status = "CREATE_COMPLETE" THEN {StackOutputs(n)}
    ELSE IF status \in {"DELETE_IN_PROGRESS", "DELETE_FAILED"}
    THEN {<<>>, StackOutputs(n)}
    ELSE {<<>>}

\* GET of the outputs of a code: validateAccessCodeFormat, then the
\* getStackRecord of findStackByAccessCode.
LookupStart(code, ok) ==
    LET l == [IdleLookup EXCEPT !.code = code]
    IN /\ LookupEnded
       /\ MayFail(ok)
       /\ ~uuidRegex(code) => ok
       /\ budget' = Fault(ok, budget)
       /\ lookup' =
            IF ~uuidRegex(code)
            THEN LambdaError(l, 400, "INVALID_ACCESS_CODE_FORMAT",
                             "Invalid Access Code format. Expected format: xxxxxxxx-xxxx-xxxx-xxxx-xxxxxxxxxxxx")
            ELSE IF ~ok
            THEN LambdaError(l, 500, "DYNAMODB_ERROR",
                             "Database stack search failed. Please try again or contact your administrator.")
            ELSE [l EXCEPT !.pc = "validate", !.record = ItemAt(rec, code)]
       /\ UNCHANGED <<client, scan, rec, stacks, rule, clock, alloc, sync, del>>
       /\ calm' = 0

\* The rest of getStackOutputs: validateAccessCode, the status of the
\* record that was read, its cached outputs, and DescribeStacks by stack
\* name when a complete record has none (status is what the stack has
\* reached, outs what it reports; a failing call gives no outputs).
LookupFinish(ok, status, outs) ==
    LET r == lookup.record
        isValid == validateAccessCode(rec, lookup.code, ok)
        found == FoundStack(r, isValid)
        cached == Attr(r, "outputs", <<>>)
        called == found /\ r["status"] \in validOutputStates /\ cached = <<>>
        n == Attr(r, "stackName", 0)
        known == n \in DOMAIN stacks
        answered == called /\ known /\ status # "NONE"
    IN /\ lookup.pc = "validate"
       /\ MayFail(ok)
       /\ IF called /\ known
          THEN \/ status = "NONE" /\ outs = <<>> /\ MayFail(FALSE)
               \/ /\ status \in CfnReach(stacks[n].status)
                  /\ outs \in DescribedOutputs(n, status)
          ELSE status = "NONE" /\ outs = <<>>
       /\ budget' = Fault(ok /\ (called /\ known => status # "NONE"), budget)
       /\ stacks' = IF answered THEN [stacks EXCEPT ![n].status = status] ELSE stacks
       /\ lookup' =
            LET l == [lookup EXCEPT !.isValid = isValid]
            IN
            IF ~found
            THEN LambdaError(l, 404, "STACK_NOT_FOUND",
                             "No stack found with the specified Access Code.")
            ELSE IF r["status"] \in errorStates
            THEN LambdaError(l, 400, "STACK_ERROR_STATE", "Stack is in error state.")
            ELSE IF r["status"] \notin validOutputStates
            THEN [l EXCEPT !.pc = "returned", !.statusCode = 200]
            ELSE IF cached # <<>>
            THEN [l EXCEPT !.pc = "returned", !.statusCode = 200, !.outputs = cached]
            ELSE [l EXCEPT !.pc = "returned", !.statusCode = 200,
                                !.outputs = IF status = "NOT_EXIST" THEN <<>> ELSE outs]
       /\ UNCHANGED <<client, scan, rec, rule, clock, alloc, sync, del>>
       /\ calm' = 0

\* ------------------------------------------------------------ the system
InitBudget ==
    [alloc |-> MaxAllocs, sync |-> MaxSyncs, del |-> MaxDeletes, ops |-> MaxOps,
     stacks |-> MaxStacks, faults |-> MaxFaults, endless |-> FALSE]

Init ==
    /\ rec = [c \in 1..NumCodes |-> InitialRecord]
    /\ scan \in ScanOrders(NumCodes)
    /\ stacks = <<>>
    /\ rule = "ENABLED"
    /\ clock = 0
    /\ budget = InitBudget
    /\ alloc = [a \in AllocIds |-> IdleAlloc]
    /\ sync = IdleSync
    /\ del = IdleDel
    /\ calm = 0
    /\ client = IdleClient
    /\ lookup = IdleLookup

Next ==
    \/ \E a \in AllocIds, count \in 1..MaxBatch, ok \in BOOLEAN :
          DeployStart(a, count, <<>>, ok)
    \/ \E a \in AllocIds, ok \in BOOLEAN : DeployCreate(a, ok)
    \/ \E a \in AllocIds, ok \in BOOLEAN : DeployPut(a, ok)
    \/ \E a \in AllocIds, ok \in BOOLEAN : DeployReset(a, ok)
    \/ \E a \in AllocIds, ok \in BOOLEAN : ManageCount(a, ok)
    \/ \E a \in AllocIds, ok \in BOOLEAN : ManageGetRule(a, ok)
    \/ \E a \in AllocIds, ok \in BOOLEAN : ManageSetRule(a, ok)
    \/ \E ok \in BOOLEAN : SyncStart(ok)
    \/ \E ok \in BOOLEAN, status \in StackStatuses \cup {"NONE"} :
          SyncDescribe(ok, status)
    \/ \E ok \in BOOLEAN : SyncWrite(ok)
    \/ \E ok \in BOOLEAN : SyncError(ok)
    \/ \E ok \in BOOLEAN : SyncValidate(ok)
    \/ \E ok \in BOOLEAN : SyncGetRule(ok)
    \/ \E ok \in BOOLEAN : SyncSetRule(ok)
    \/ \E id \in Pool, ok \in BOOLEAN : DeleteOneStart(id, ok)
    \/ \E id \in Pool, ok \in BOOLEAN : DeleteOneCall(id, ok)
    \/ \E id \in Pool, ok \in BOOLEAN : DeleteOneWrite(id, ok)
    \/ \E ok \in BOOLEAN : DeleteAllStart(ok)
    \/ \E id \in Pool, ok \in BOOLEAN : DeleteAllCall(id, ok)
    \/ \E id \in Pool, ok \in BOOLEAN : DeleteAllWrite(id, ok)

Spec == Init /\ [][Next]_vars

\* One stack-deployer at a time, alone, deploying batches over a larger pool
\* whose schedule rule an earlier pass over the empty pool has disabled.
BatchBudget ==
    [alloc |-> MaxAllocs, sync |-> 0, del |-> 0, ops |-> MaxAllocs,
     stacks |-> BatchCodes, faults |-> 0, endless |-> FALSE]

\* The explicit selections a request may carry: none, or up to two ids out
\* of the first two codes of the pool and one id that is not in the pool.
SelectableIds == {1, 2, BatchCodes + 1}

Selections ==
    {<<>>} \cup {<<c>> : c \in SelectableIds}
           \cup {<<c, d>> : c, d \in SelectableIds}

BatchInit ==
    /\ rec = [c \in 1..BatchCodes |-> InitialRecord]
    /\ scan \in ScanOrders(BatchCodes)
    /\ stacks = <<>>
    /\ rule = "DISABLED"
    /\ clock = 0
    /\ budget = BatchBudget
    /\ alloc = [a \in AllocIds |-> IdleAlloc]
    /\ sync = IdleSync
    /\ del = IdleDel
    /\ calm = 0
    /\ client = IdleClient
    /\ lookup = IdleLookup

BatchNext ==
    \/ \E count \in 0..BatchCodes + 1, selected \in Selections, ok \in BOOLEAN :
          DeployStart(1, count, selected, ok)
    \/ \E ok \in BOOLEAN : DeployCreate(1, ok)
    \/ \E ok \in BOOLEAN : DeployPut(1, ok)
    \/ \E ok \in BOOLEAN : DeployReset(1, ok)
    \/ \E ok \in BOOLEAN : ManageCount(1, ok)
    \/ \E ok \in BOOLEAN : ManageGetRule(1, ok)
    \/ \E ok \in BOOLEAN : ManageSetRule(1, ok)

SpecBatch == BatchInit /\ [][BatchNext]_vars

\* Handlers invoked without end over a pool of LiveCodes codes: the schedule
\* keeps firing for as long as the rule is enabled, and users keep deploying
\* and deleting; only the stacks ever created and the failing calls are
\* counted.
LiveBudget ==
    [alloc |-> 0, sync |-> 0, del |-> 0, ops |-> 0,
     stacks |-> LiveCodes, faults |-> MaxFaults, endless |-> TRUE]

LiveInit ==
    /\ rec = [c \in 1..LiveCodes |-> InitialRecord]
    /\ scan \in ScanOrders(LiveCodes)
    /\ stacks = <<>>
    /\ rule = "ENABLED"
    /\ clock = 0
    /\ budget = LiveBudget
    /\ alloc = [a \in AllocIds |-> IdleAlloc]
    /\ sync = IdleSync
    /\ del = IdleDel
    /\ calm = 0
    /\ client = IdleClient
    /\ lookup = IdleLookup

\* A Lambda invocation that has started runs on to its end.
DeployRun ==
    \E ok \in BOOLEAN :
        \/ DeployCreate(1, ok) \/ DeployPut(1, ok) \/ DeployReset(1, ok)
        \/ ManageCount(1, ok) \/ ManageGetRule(1, ok) \/ ManageSetRule(1, ok)

DeleteRun ==
    \E id \in Pool, ok \in BOOLEAN :
        \/ DeleteOneCall(id, ok) \/ DeleteOneWrite(id, ok)
        \/ DeleteAllCall(id, ok) \/ DeleteAllWrite(id, ok)

\* The enabled rule invokes stack-sync every interval, and the pass runs on.
SyncRun ==
    \E ok \in BOOLEAN :
        \/ SyncStart(ok) \/ SyncWrite(ok) \/ SyncError(ok) \/ SyncValidate(ok)
        \/ SyncGetRule(ok) \/ SyncSetRule(ok)
        \/ \E status \in StackStatuses \cup {"NONE"} : SyncDescribe(ok, status)

\* One stack-deployer, one stack-deleter and one stack-sync at a time.
LiveNext ==
    \/ \E ok \in BOOLEAN : DeployStart(1, 1, <<>>, ok)
    \/ DeployRun
    \/ \E id \in Pool, ok \in BOOLEAN : DeleteOneStart(id, ok)
    \/ \E ok \in BOOLEAN : DeleteAllStart(ok)
    \/ DeleteRun
    \/ SyncRun

SpecLive ==
    /\ LiveInit /\ [][LiveNext]_vars
    /\ WF_vars(DeployRun) /\ WF_vars(DeleteRun) /\ WF_vars(SyncRun)

\* One stack-deployer invocation deploys a batch while stack-sync passes
\* run, with up to SyncFaults failing calls.
SyncBudget ==
    [alloc |-> 1, sync |-> MaxSyncs, del |-> 0, ops |-> MaxSyncs + 1,
     stacks |-> MaxStacks, faults |-> SyncFaults, endless |-> FALSE]

SyncInit ==
    /\ rec = [c \in 1..NumCodes |-> InitialRecord]
    /\ scan \in ScanOrders(NumCodes)
    /\ stacks = <<>>
    /\ rule = "ENABLED"
    /\ clock = 0
    /\ budget = SyncBudget
    /\ alloc = [a \in AllocIds |-> IdleAlloc]
    /\ sync = IdleSync
    /\ del = IdleDel
    /\ calm = 0
    /\ client = IdleClient
    /\ lookup = IdleLookup

SyncNext ==
    \/ \E count \in 1..NumCodes, ok \in BOOLEAN : DeployStart(1, count, <<>>, ok)
    \/ DeployRun
    \/ SyncRun

SpecSync == SyncInit /\ [][SyncNext]_vars

\* One stack-deployer invocation, stack-sync and stack-deleter, with the
\* deletion status asked for between the deleter's invocations.
StatusBudget ==
    [alloc |-> 1, sync |-> MaxSyncs, del |-> MaxDeletes, ops |-> MaxOps,
     stacks |-> MaxStacks, faults |-> MaxFaults, endless |-> FALSE]

StatusInit ==
    /\ rec = [c \in 1..NumCodes |-> InitialRecord]
    /\ scan \in ScanOrders(NumCodes)
    /\ stacks = <<>>
    /\ rule = "ENABLED"
    /\ clock = 0
    /\ budget = StatusBudget
    /\ alloc = [a \in AllocIds |-> IdleAlloc]
    /\ sync = IdleSync
    /\ del = IdleDel
    /\ calm = 0
    /\ client = IdleClient
    /\ lookup = IdleLookup

StatusNext ==
    \/ \E ok \in BOOLEAN : DeployStart(1, 1, <<>>, ok)
    \/ DeployRun
    \/ SyncRun
    \/ \E id \in Pool, ok \in BOOLEAN : DeleteOneStart(id, ok)
    \/ \E ok \in BOOLEAN : DeleteAllStart(ok)
    \/ DeleteRun
    \/ \E id \in Pool, ok \in BOOLEAN : StatusOne(id, ok)
    \/ \E ok \in BOOLEAN : StatusAll(ok)

SpecStatus == StatusInit /\ [][StatusNext]_vars

\* One stack-deployer invocation, stack-sync and stack-deleter, with the
\* outputs of any code asked for at any moment.
LookupInit == StatusInit

LookupNext ==
    \/ \E ok \in BOOLEAN : DeployStart(1, 1, <<>>, ok)
    \/ DeployRun
    \/ SyncRun
    \/ \E id \in Pool, ok \in BOOLEAN : DeleteOneStart(id, ok)
    \/ DeleteRun
    \/ \E code \in LookupCodes, ok \in BOOLEAN : LookupStart(code, ok)
    \/ \E ok \in BOOLEAN, status \in StackStatuses \cup {"NONE"},
          outs \in {<<>>} \cup {StackOutputs(n) : n \in DOMAIN stacks} :
          LookupFinish(ok, status, outs)

SpecLookup == LookupInit /\ [][LookupNext]_vars

\* The browser's calls alone, against an endpoint that answers anything.
RetryInit ==
    /\ rec = [c \in 1..LiveCodes |-> InitialRecord]
    /\ scan \in ScanOrders(LiveCodes)
    /\ stacks = <<>>
    /\ rule = "DISABLED"
    /\ clock = 0
    /\ budget = [InitBudget EXCEPT !.alloc = 0, !.sync = 0, !.del = 0, !.ops = 0]
    /\ alloc = [a \in AllocIds |-> IdleAlloc]
    /\ sync = IdleSync
    /\ del = IdleDel
    /\ calm = 0
    /\ client = IdleClient
    /\ lookup = IdleLookup

RetryNext ==
    \/ \E m \in 1..MaxAttempts, b \in 1..MaxBaseDelay, d \in 1..MaxDelayCap :
          ClientStart(m, b, d)
    \/ \E o \in FetchOutcomes : ClientAttempt(o)

SpecRetry == RetryInit /\ [][RetryNext]_vars

\* ------------------------------------------------------------ properties
StackExists(n) == stacks[n].status \in LiveStatuses

AvailableCodes == {id \in Pool : rec[id]["status"] = "AVAILABLE"}

\* isLinked of stackRecordToAccessCodeStatus.
isLinked(item) == item["status"] # "AVAILABLE" /\ Has(item, "stackArn")

LinkedCodes == {id \in Pool : isLinked(rec[id])}

\* An AVAILABLE record that carries none of the linked fields.
CleanAvailable(item) ==
    /\ item["status"] = "AVAILABLE"
    /\ DOMAIN item \cap ResetFields = {}

\* C1: exclusive linkage - no two stacks that exist at the same time carry
\* the same access code in their UniqueId tag.
C1_ExclusiveLinkage ==
    \A m, n \in DOMAIN stacks :
        (m # n /\ StackExists(m) /\ StackExists(n)) => stacks[m].tag # stacks[n].tag

\* C2: pool conservation - the AVAILABLE records and the linked records
\* together are the whole pool, so totalAvailable of getAllAccessCodeStatuses
\* (pool size minus linked) is the number of codes assignAccessCodes can use.
C2_PoolConservation ==
    Cardinality(AvailableCodes) + Cardinality(LinkedCodes) = Cardinality(Pool)

\* C3: a record has a stackArn iff its status is not AVAILABLE, and an
\* AVAILABLE record has no outputs, stackArn, stackName, stackId or createdAt.
C3_RecordShape ==
    \A id \in Pool :
        /\ Has(rec[id], "stackArn") <=> rec[id]["status"] # "AVAILABLE"
        /\ rec[id]["status"] = "AVAILABLE" => CleanAvailable(rec[id])

\* A stack-sync write lands on a record that no longer references the stack
\* of the snapshot the pass is acting on.
SyncWritesRelinked ==
    /\ sync.pc = "write"
    /\ sync'.pc \in {"describe", "validate"}
    /\ LET r == sync.snapshot[sync.idx]
       IN /\ Has(rec[r["guid"]], "stackArn")
          /\ rec[r["guid"]]["stackArn"] # r["stackArn"]

\* C4: a reconciliation pass never resets, or overwrites fields of, a record
\* that was linked to a new stack after the pass read its snapshot.
C4_NoWriteAfterRelink == [][~SyncWritesRelinked]_vars

\* A stack-deleter invocation reported the deletion of id's stack as
\* initiated, and CloudFormation has completed that deletion.
DeletionCompleted(id) ==
    /\ del.pc = "returned"
    /\ id \in DOMAIN del.tasks
    /\ del.tasks[id].outcome = "DELETE_INITIATED"
    /\ del.tasks[id].name \in DOMAIN stacks
    /\ stacks[del.tasks[id].name].status \in {"DELETE_COMPLETE", "NOT_EXIST"}

\* C5: round-trip availability - a code that was allocated and then deleted,
\* the deletion having completed in CloudFormation, is eventually AVAILABLE
\* again with stackArn, stackName, stackId, outputs and createdAt absent.
C5_RoundTrip ==
    \A id \in 1..LiveCodes :
        [](DeletionCompleted(id) => <>CleanAvailable(rec[id]))

Bookkeeping == {"lastSyncAt", "updatedAt"}

\* The step belongs to the second of two stack-sync passes in a row.
SecondPassStep == calm = 2 /\ calm' = 2

\* C6 (as amended): when two stack-sync passes run one after the other,
\* without a failing call, a change of any stack or another handler in
\* between, the second pass changes no field of any record other than
\* lastSyncAt and updatedAt.
C6_IdempotentSync ==
    [][SecondPassStep =>
         \A id \in Pool :
            RemoveAttrs(rec'[id], Bookkeeping) = RemoveAttrs(rec[id], Bookkeeping)]_vars

\* C6 as stated: the second pass changes no field other than lastSyncAt.
C6_OnlyLastSyncAt ==
    [][SecondPassStep =>
         \A id \in Pool :
            RemoveAttrs(rec'[id], {"lastSyncAt"}) = RemoveAttrs(rec[id], {"lastSyncAt"})]_vars

\* The second pass in a row has written a linked record.
C6_SecondPassWrote ==
    /\ calm = 2
    /\ sync.pc = "returned"
    /\ \E id \in Pool :
          /\ isLinked(rec[id])
          /\ Has(rec[id], "lastSyncAt")
          /\ rec[id]["lastSyncAt"] = clock
          /\ rec[id]["updatedAt"] = clock

\* Invocation a ends in this step.
AllocEnds(a) ==
    /\ alloc[a].pc \notin {"idle", "returned", "raised"}
    /\ alloc'[a].pc \in {"returned", "raised"}

\* C7: partial-failure containment - when deployStacks returns or throws,
\* the record of every assigned code whose CreateStack failed is AVAILABLE
\* and has no linked field.
C7_FailureContained ==
    [][\A a \in AllocIds :
          AllocEnds(a) =>
             \A k \in 1..Len(alloc'[a].results) :
                alloc'[a].results[k] = "CREATE_FAILED" =>
                   CleanAvailable(rec'[alloc'[a].assigned[k]])]_vars

\* C8: a deployStacks invocation that ends, by returning or by throwing
\* DEPLOYMENT_BATCH_FAILED, after at least one CreateStack succeeded has by
\* then made sure the schedule rule is enabled, or has swallowed the failure
\* of the rule call.
C8_TriggerEnsured ==
    \A a \in AllocIds :
        (alloc[a].pc \in {"returned", "raised"} /\ alloc[a].successful > 0) =>
            alloc[a].ruleCall \in {"enable", "keptEnabled", "fault"}

NoActiveRecords == Len(getNonAvailableStackRecords(rec)) = 0

\* C9: a stack-sync pass goes on to disable the rule only after a re-fetch
\* that succeeded and found no non-AVAILABLE record; after a re-fetch that
\* found some, or failed, the pass returns without touching the rule; and the
\* rule calls, failing or not, leave the result of the pass as it was.
C9_DisableOnlyWhenZero ==
    [][/\ (sync.pc = "validate" /\ sync'.pc = "getrule") =>
             NoActiveRecords /\ budget'.faults = budget.faults
       /\ (sync.pc = "validate" /\ sync'.pc # "validate" /\ sync'.pc # "getrule") =>
             sync'.pc = "returned" /\ rule' = rule /\ sync'.ruleCall = "NONE"
       /\ (sync.pc \in {"getrule", "setrule"} /\ sync' # sync) =>
             /\ sync'.pc \in {"setrule", "returned"}
             /\ sync'.failedSyncs = sync.failedSyncs
             /\ sync'.successfulSyncs = sync.successfulSyncs
             /\ sync'.errors = sync.errors
       /\ (sync' # sync /\ rule' # rule) =>
             sync.pc = "setrule" /\ sync.validated = "zero" /\ rule' = "DISABLED"]_vars

\* A pass that processed records has re-fetched none and disabled the rule.
C9_PassDisabledRule ==
    /\ sync.pc = "returned"
    /\ sync.totalProcessed > 0
    /\ sync.validated = "zero"
    /\ sync.ruleCall = "disable"
    /\ rule = "DISABLED"

\* The step is the stack-sync write for id after the stack of the snapshot
\* was seen DELETE_COMPLETE or not existing.
SyncResets(id) ==
    /\ sync.pc = "write"
    /\ sync'.pc # "write"
    /\ sync.snapshot[sync.idx]["guid"] = id
    /\ sync.desc \in {"NOT_EXIST", "DELETE_COMPLETE"}

\* C10: the status of a record goes from a linked status back to AVAILABLE
\* only in the stack-sync write that follows a describe showing the stack
\* DELETE_COMPLETE or not existing.
C10_OnlySyncResets ==
    [][\A id \in Pool :
          (rec[id]["status"] # "AVAILABLE" /\ rec'[id]["status"] = "AVAILABLE")
             => SyncResets(id)]_vars

\* Invocation a of stack-deployer starts in this step.
Allocates(a) ==
    /\ AllocEnded(a)
    /\ alloc'[a].pc \in {"create", "raised"}
    /\ alloc'[a] # alloc[a] \/ budget'.alloc # budget.alloc

\* The count passes validateStackCount and no call of the step fails.
CountInRange(a) ==
    /\ alloc'[a].count \in 1..Cardinality(Pool)
    /\ budget'.faults = budget.faults

\* The request is refused with error e before anything is created or
\* written.
Refused(a, e) ==
    /\ alloc'[a].pc = "raised"
    /\ alloc'[a].error = e
    /\ alloc'[a].results = <<>>
    /\ rec' = rec
    /\ stacks' = stacks

PoolExhausted(a) ==
    /\ Refused(a, "INSUFFICIENT_ACCESS_CODES")
    /\ alloc'[a].details.requested = alloc'[a].count
    /\ alloc'[a].details.available = Cardinality(AvailableCodes)

\* C11: a deployStacks request for a count between 1 and the pool size that
\* names no access codes, and whose reads succeed, throws
\* INSUFFICIENT_ACCESS_CODES with the requested and the available count
\* whenever fewer than count codes are AVAILABLE; no stack is created and
\* no record changes.
C11_PoolExhausted ==
    [][\A a \in AllocIds :
          (/\ Allocates(a)
           /\ CountInRange(a)
           /\ alloc'[a].selected = <<>>
           /\ Cardinality(AvailableCodes) < alloc'[a].count)
          => PoolExhausted(a)]_vars

\* C11 as stated, for any requested count: fewer than count AVAILABLE codes
\* make the request fail with the pool-exhausted error.
C11_AnyCount ==
    [][\A a \in AllocIds :
          (/\ Allocates(a)
           /\ budget'.faults = budget.faults
           /\ alloc'[a].selected = <<>>
           /\ Cardinality(AvailableCodes) < alloc'[a].count)
          => PoolExhausted(a)]_vars

\* A second request for two codes was refused with one code left, the first
\* batch still CREATE_IN_PROGRESS.
C11_RefusedWithOneLeft ==
    /\ alloc[1].pc = "raised"
    /\ alloc[1].error = "INSUFFICIENT_ACCESS_CODES"
    /\ alloc[1].details.requested = 2
    /\ alloc[1].details.available = 1
    /\ \E id \in Pool : rec[id]["status"] = "CREATE_IN_PROGRESS"

\* The explicit ids of request a are as many as the count, all in the pool,
\* all AVAILABLE, and none repeats.
ValidSelection(a) ==
    LET sel == alloc'[a].selected
    IN /\ Len(sel) = alloc'[a].count
       /\ \A i \in 1..Len(sel) : sel[i] \in AvailableCodes
       /\ \A i, j \in 1..Len(sel) : i # j => sel[i] # sel[j]

InvalidSelectionErrors ==
    {"ACCESS_CODE_COUNT_MISMATCH", "INVALID_ACCESS_CODES",
     "ACCESS_CODES_NOT_AVAILABLE", "DUPLICATE_ACCESS_CODES"}

\* Request a is refused with one of the errors of an invalid selection.
InvalidSelection(a) == \E e \in InvalidSelectionErrors : Refused(a, e)

\* C12: a deployStacks request that names access codes, for a count between
\* 1 and the pool size and with succeeding reads, is refused with an
\* invalid-selection error, creating no stack and changing no record, unless
\* the named codes are as many as the count, all in the pool, all AVAILABLE
\* and without repeats; a valid selection is assigned as given.
C12_InvalidSelection ==
    [][\A a \in AllocIds :
          (/\ Allocates(a)
           /\ CountInRange(a)
           /\ alloc'[a].selected # <<>>)
          => IF ValidSelection(a)
             THEN alloc'[a].pc = "create" /\ alloc'[a].assigned = alloc'[a].selected
             ELSE InvalidSelection(a)]_vars

\* C12 as stated, for any requested count: an invalid selection is refused
\* with an invalid-selection error.
C12_AnyCount ==
    [][\A a \in AllocIds :
          (/\ Allocates(a)
           /\ budget'.faults = budget.faults
           /\ alloc'[a].selected # <<>>
           /\ ~ValidSelection(a))
          => InvalidSelection(a)]_vars

\* A request naming a code that an earlier batch holds was refused.
C12_RefusedUnavailable ==
    /\ alloc[1].pc = "raised"
    /\ alloc[1].error = "ACCESS_CODES_NOT_AVAILABLE"
    /\ \E i \in 1..Len(alloc[1].selected) :
          /\ alloc[1].selected[i] \in Pool
          /\ isLinked(rec[alloc[1].selected[i]])

\* How many of the outcomes in s are o.
CountOf(s, o) == Cardinality({k \in 1..Len(s) : s[k] = o})

\* Invocation a has thrown DEPLOYMENT_BATCH_FAILED.
BatchFailed(a) ==
    alloc[a].pc = "raised" /\ alloc[a].error = "DEPLOYMENT_BATCH_FAILED"

DeletesOne(id) ==
    /\ DelEnded
    /\ del'.mode = "one" /\ del'.code = id
    /\ del' # del \/ budget'.del # budget.del
    /\ budget'.faults = budget.faults

\* The request is refused with error e: no DeleteStack call is made or
\* pending, and nothing is written.
DeleteRefused(e) ==
    /\ del'.pc = "raised" /\ del'.error = e
    /\ del'.tasks = <<>>
    /\ stacks' = stacks
    /\ rec' = rec

\* C14: deleteStackByAccessCode for a code whose stored status is one of
\* the in-progress states other than DELETE_IN_PROGRESS throws
\* STACK_OPERATION_IN_PROGRESS, calls no DeleteStack and leaves the record
\* unchanged.
C14_OperationInProgress ==
    [][\A id \in Pool :
          (DeletesOne(id) /\ rec[id]["status"] \in InProgressStates)
          => DeleteRefused("STACK_OPERATION_IN_PROGRESS")]_vars

\* The pending step of the single deletion of id is at pc.
OneAt(id, pc) ==
    /\ del.pc = "running" /\ del.mode = "one"
    /\ id \in DOMAIN del.tasks
    /\ del.tasks[id].pc = pc
    /\ del' # del

\* C15: deleteStackByAccessCode for a linked code in a deletable status
\* first sends DeleteStack and only then writes status DELETE_IN_PROGRESS,
\* changing no other field (updatedAt aside): the DeleteStack step writes
\* nothing and, when it fails, makes the call throw; and when the call
\* reports success the stored status is DELETE_IN_PROGRESS.
C15_DeleteThenMark ==
    [][\A id \in Pool :
          /\ OneAt(id, "call") =>
                /\ rec' = rec
                /\ budget'.faults # budget.faults =>
                      del'.pc = "raised" /\ stacks' = stacks
          /\ OneAt(id, "write") =>
                /\ \A o \in Pool \ {id} : rec'[o] = rec[o]
                /\ DOMAIN rec'[id] = DOMAIN rec[id]
                /\ \A k \in DOMAIN rec[id] \ {"status", "updatedAt"} :
                      rec'[id][k] = rec[id][k]
                /\ del'.pc = "returned" => rec'[id]["status"] = "DELETE_IN_PROGRESS"]_vars

\* C16: deleteStackByAccessCode for a code whose stored status is
\* DELETE_IN_PROGRESS does nothing: no DeleteStack call, no write, and it
\* returns, without throwing, success=false with deletion status
\* DELETE_IN_PROGRESS.
C16_AlreadyDeleting ==
    [][\A id \in Pool :
          (DeletesOne(id) /\ rec[id]["status"] = "DELETE_IN_PROGRESS")
          => /\ del'.pc = "returned"
             /\ del'.error = "NONE"
             /\ del'.tasks[id].outcome = "ALREADY_DELETING"
             /\ stacks' = stacks
             /\ rec' = rec]_vars

\* C17: deleteStackByAccessCode for a code whose record is AVAILABLE or has
\* no stackArn throws STACK_NOT_FOUND, calls no DeleteStack and leaves the
\* record unchanged.
C17_NotFound ==
    [][\A id \in Pool :
          (DeletesOne(id) /\ (rec[id]["status"] = "AVAILABLE" \/ ~Has(rec[id], "stackArn")))
          => DeleteRefused("STACK_NOT_FOUND")]_vars

\* A deletion was refused for a code that is free while the other code of
\* the pool holds a stack.
C17_RefusedFreeCode ==
    /\ del.pc = "raised"
    /\ del.error = "STACK_NOT_FOUND"
    /\ del.code \in Pool
    /\ rec[del.code]["status"] = "AVAILABLE"
    /\ \E o \in Pool \ {del.code} : isLinked(rec[o])

\* deleteAllStacks is invoked in this step, and its read succeeds.
DeletesAll ==
    /\ DelEnded
    /\ del'.mode = "all"
    /\ del' # del \/ budget'.del # budget.del
    /\ budget'.faults = budget.faults

BulkOutcomes ==
    {"DELETE_INITIATED", "ALREADY_DELETING", "OPERATION_IN_PROGRESS", "DELETE_FAILED"}

\* C18: deleteAllStacks enumerates the records that are not AVAILABLE and
\* have a stackArn and returns exactly one outcome for each of them, from
\* DELETE_INITIATED, ALREADY_DELETING, OPERATION_IN_PROGRESS and
\* DELETE_FAILED by the guards of the single deletion; DeleteStack is called
\* only for records that were neither DELETE_IN_PROGRESS nor in progress;
\* and a failing DeleteStack gives its own record DELETE_FAILED without
\* touching the deletion of any other record or making the call throw.
C18_BulkOutcomes ==
    [][/\ DeletesAll =>
            /\ del'.pc # "raised"
            /\ DOMAIN del'.tasks = {id \in Pool : isLinked(rec[id])}
            /\ \A id \in DOMAIN del'.tasks :
                  LET t == del'.tasks[id]
                      status == rec[id]["status"]
                  IN IF status = "DELETE_IN_PROGRESS"
                     THEN t.pc = "done" /\ t.outcome = "ALREADY_DELETING"
                     ELSE IF status \in InProgressStates
                     THEN t.pc = "done" /\ t.outcome = "OPERATION_IN_PROGRESS"
                     ELSE t.pc = "call"
       /\ (del.mode = "all" /\ del.pc = "running" /\ del' # del) =>
            /\ del'.pc \in {"running", "returned"}
            /\ DOMAIN del'.tasks = DOMAIN del.tasks
            /\ \E id \in DOMAIN del.tasks :
                  /\ del.tasks[id].pc # "done"
                  /\ \A o \in DOMAIN del.tasks \ {id} : del'.tasks[o] = del.tasks[o]
                  /\ stacks' # stacks => del.tasks[id].pc = "call"
                  /\ (del.tasks[id].pc = "call" /\ budget'.faults # budget.faults) =>
                        /\ del'.tasks[id].pc = "done"
                        /\ del'.tasks[id].outcome = "DELETE_FAILED"
                        /\ stacks' = stacks /\ rec' = rec
            /\ del'.pc = "returned" =>
                  \A id \in DOMAIN del'.tasks :
                      del'.tasks[id].pc = "done" /\ del'.tasks[id].outcome \in BulkOutcomes]_vars

\* A bulk deletion returned with one DeleteStack failed and the deletion of
\* the other stack initiated.
C18_OneFailedOneInitiated ==
    /\ del.mode = "all" /\ del.pc = "returned"
    /\ \E i, j \in DOMAIN del.tasks :
          /\ del.tasks[i].outcome = "DELETE_FAILED"
          /\ del.tasks[j].outcome = "DELETE_INITIATED"

\* The update of the record step of stack-sync for id succeeds in this
\* step.
SyncWrote(id) ==
    /\ sync.pc = "write"
    /\ sync'.pc \in {"describe", "validate"}
    /\ sync.snapshot[sync.idx]["guid"] = id

\* C19: when stack-sync finds that the stack of a record no longer exists
\* or is DELETE_COMPLETE, its update leaves the record AVAILABLE without
\* stackArn, stackName, stackId, outputs, createdAt and syncError, and
\* getAllDeletionStatus then has no entry for the code.
C19_ResetToAvailable ==
    [][\A id \in Pool :
          (SyncWrote(id) /\ sync.desc \in {"NOT_EXIST", "DELETE_COMPLETE"})
          => /\ rec'[id]["status"] = "AVAILABLE"
             /\ DOMAIN rec'[id] \cap {"stackArn", "stackName", "stackId", "outputs",
                                      "createdAt", "syncError"} = {}
             /\ id \notin DOMAIN getAllDeletionStatus(rec')]_vars

\* A pass has put back the code of a deleted stack that had been reconciled
\* with its outputs.
C19_DeletedStackPutBack ==
    \E id \in Pool :
        /\ rec[id]["status"] = "AVAILABLE"
        /\ Has(rec[id], "lastSyncAt")
        /\ sync.successfulSyncs > 0
        /\ \E n \in 1..Len(stacks) :
              stacks[n].tag = id /\ stacks[n].status = "DELETE_COMPLETE"

\* C20: after a successful record step of stack-sync for a stack that
\* exists with a status s other than DELETE_COMPLETE, the stored status is
\* s, stackName and stackId are those of the stack, outputs are those of
\* the stack when s is CREATE_COMPLETE or UPDATE_COMPLETE, lastSyncAt is
\* refreshed, and no field that already agreed with the stack has been
\* written (updatedAt aside).
C20_FieldsFollowStack ==
    [][\A id \in Pool :
          (SyncWrote(id) /\ sync.desc \in LiveStatuses)
          => LET n == sync.snapshot[sync.idx]["stackArn"]
                 old == rec[id]
                 new == rec'[id]
             IN /\ new["status"] = sync.desc
                /\ Has(new, "stackName") /\ new["stackName"] = n
                /\ Has(new, "stackId") /\ new["stackId"] = n
                /\ sync.desc \in {"CREATE_COMPLETE", "UPDATE_COMPLETE"} =>
                      Has(new, "outputs") /\ new["outputs"] = StackOutputs(n)
                /\ new["lastSyncAt"] = clock
                /\ \A k \in (DOMAIN old \cup DOMAIN new) \
                              {"lastSyncAt", "updatedAt", "syncError"} :
                      (Has(old, k) /\ Has(new, k) /\ old[k] = new[k])
                      \/ k \in DOMAIN SyncDiff(old, n, sync.desc)]_vars

\* The record step of stack-sync for id fails in this step: the describe
\* or the update throws.
SyncStepFails(id) ==
    /\ sync.pc \in {"describe", "write"}
    /\ sync'.pc = "syncerror"
    /\ sync.snapshot[sync.idx]["guid"] = id

\* The catch block of the record step for id runs in this step.
SyncCatches(id) ==
    /\ sync.pc = "syncerror"
    /\ sync' # sync
    /\ sync.snapshot[sync.idx]["guid"] = id

\* The pass goes on with the record after the one at idx, or with the
\* validation when there is none.
PassGoesOn ==
    /\ sync'.pc = (IF sync.idx < Len(sync.snapshot) THEN "describe" ELSE "validate")
    /\ sync'.idx = sync.idx + 1
    /\ sync'.snapshot = sync.snapshot

SyncStepSucceeds(id) ==
    /\ sync.pc = "write"
    /\ sync'.successfulSyncs = sync.successfulSyncs + 1
    /\ sync.snapshot[sync.idx]["guid"] = id

\* C22: after a record step of a pass completes successfully the record
\* has no syncError, also when the step found no other field to change.
C22_ErrorCleared ==
    [][\A id \in Pool : SyncStepSucceeds(id) => ~Has(rec'[id], "syncError")]_vars

\* C23: a record has stored outputs only while its status is
\* CREATE_COMPLETE or UPDATE_COMPLETE.
C23_OutputsOnlyWhenComplete ==
    \A id \in DOMAIN rec :
        Has(rec[id], "outputs") =>
            rec[id]["status"] \in {"CREATE_COMPLETE", "UPDATE_COMPLETE"}

\* Invocation a of stack-deployer returns its result in this step.
AllocReturns(a) == alloc[a].pc # "returned" /\ alloc'[a].pc = "returned"

\* C24: when stack-deployer returns, the record of every code it reports
\* as CREATE_IN_PROGRESS has status CREATE_IN_PROGRESS and a stackArn.
C24_ReportedIsStored ==
    [][\A a \in AllocIds :
          AllocReturns(a) =>
             \A k \in 1..Len(alloc'[a].results) :
                alloc'[a].results[k] = "CREATE_IN_PROGRESS" =>
                   /\ Has(rec'[alloc'[a].assigned[k]], "stackArn")
                   /\ rec'[alloc'[a].assigned[k]]["status"] = "CREATE_IN_PROGRESS"]_vars

AutoAssigns(a) ==
    /\ Allocates(a)
    /\ alloc'[a].pc = "create"
    /\ alloc'[a].selected = <<>>

\* ids holds the lowest AVAILABLE ids of the table in ascending order.
LowestAvailable(table, ids) ==
    /\ \A i, j \in 1..Len(ids) : i < j => ids[i] < ids[j]
    /\ \A i \in 1..Len(ids) : table[ids[i]]["status"] = "AVAILABLE"
    /\ \A id \in DOMAIN table :
          (table[id]["status"] = "AVAILABLE" /\ id \notin SeqRange(ids)) =>
             \A i \in 1..Len(ids) : ids[i] < id

\* C26: without selected codes stack-deployer assigns the first count
\* AVAILABLE ids in ascending order of the id.
C26_AscendingAssignment ==
    [][\A a \in AllocIds :
          AutoAssigns(a) =>
             /\ Len(alloc'[a].assigned) = alloc'[a].count
             /\ LowestAvailable(rec, alloc'[a].assigned)]_vars

\* C27: a stack-deployer invocation that returns normally reports one
\* outcome per assigned code, in the order of assignment: CREATE_IN_PROGRESS
\* when the stack of that code was created and CREATE_FAILED when it was
\* not; the assigned codes it returns are all `count` codes.
C27_OneOutcomePerCode ==
    alloc[1].pc = "returned" =>
       /\ Len(alloc[1].assigned) = alloc[1].count
       /\ Len(alloc[1].results) = alloc[1].count
       /\ \A k \in 1..Len(alloc[1].results) :
             /\ alloc[1].results[k] \in {"CREATE_IN_PROGRESS", "CREATE_FAILED"}
             /\ alloc[1].results[k] = "CREATE_IN_PROGRESS" <=>
                   \E n \in DOMAIN stacks : stacks[n].tag = alloc[1].assigned[k]

\* A batch of three has returned with the second creation failed.
C27_MiddleOneFailed ==
    /\ alloc[1].pc = "returned"
    /\ alloc[1].count = 3
    /\ alloc[1].results = <<"CREATE_IN_PROGRESS", "CREATE_FAILED", "CREATE_IN_PROGRESS">>

\* Statuses a stack ends in after a failure.
FailureTerminalStates ==
    {"CREATE_FAILED", "ROLLBACK_COMPLETE", "ROLLBACK_FAILED", "DELETE_FAILED",
     "UPDATE_FAILED", "UPDATE_ROLLBACK_COMPLETE", "UPDATE_ROLLBACK_FAILED"}

\* A deletion-status request is answered in this step.
StatusAnswered ==
    /\ del'.mode \in {"status", "statusAll"}
    /\ del'.pc = "returned"
    /\ budget' = budget
    /\ alloc' = alloc /\ sync' = sync

\* The entry e projects the stored status st of a linked code.
Projects(e, st) ==
    /\ e.status = st
    /\ (st \in InProgressStates \cup {"DELETE_IN_PROGRESS"}) => ~e.isComplete
    /\ e.isComplete => st \in {"DELETE_COMPLETE"} \cup FailureTerminalStates

\* C28: the deletion status of one code and of all stacks is a read-only
\* projection of the stored status: isComplete is false for every status in
\* progress and true only for DELETE_COMPLETE and failure terminal statuses,
\* a pool code without a stack reads DELETE_COMPLETE and complete, and the
\* request changes no record, no stack and not the rule.
C28_StatusProjection ==
    [][StatusAnswered =>
          /\ rec' = rec /\ stacks' = stacks /\ rule' = rule
          /\ del'.mode = "status" =>
                LET id == del'.code
                    e == del'.tasks[id]
                IN IF IsActiveStack(rec[id])
                   THEN Projects(e, rec[id]["status"])
                   ELSE e.status = "DELETE_COMPLETE" /\ e.isComplete
          /\ del'.mode = "statusAll" =>
                /\ DOMAIN del'.tasks = {id \in Pool : IsActiveStack(rec[id])}
                /\ \A id \in DOMAIN del'.tasks :
                      Projects(del'.tasks[id], rec[id]["status"])]_vars

\* The status of an unlinked code was asked for while the other code is
\* being deleted.
C28_UnlinkedReadsDeleted ==
    /\ del.pc = "returned" /\ del.mode = "status"
    /\ ~IsActiveStack(rec[del.code])
    /\ del.tasks[del.code].isComplete
    /\ \E o \in Pool : o # del.code /\ rec[o]["status"] = "DELETE_IN_PROGRESS"

\* stack-sync has read the state of the rule in this step.
SyncReadsRule ==
    /\ sync.pc = "getrule" /\ sync'.pc # "getrule"
    /\ budget'.faults = budget.faults

\* Invocation a of stack-deployer has read the state of the rule in this
\* step.
ManageReadsRule(a) ==
    /\ alloc[a].pc = "getrule" /\ alloc'[a].pc # "getrule"
    /\ budget'.faults = budget.faults

\* C29: the control of the rule is idempotent.  When the rule is found in
\* the state it should have, no enable or disable call follows and the
\* handler returns: stack-sync finding it DISABLED after a pass with no
\* record left, stack-deployer finding it ENABLED with records counted or
\* DISABLED with none.  A disable call of stack-sync follows only a rule
\* found ENABLED.
C29_NoCallWhenInPlace ==
    [][/\ SyncReadsRule =>
            /\ rule' = rule
            /\ rule = "DISABLED" => sync'.pc = "returned" /\ sync'.ruleCall = "none"
            /\ sync'.pc = "setrule" => rule = "ENABLED"
       /\ \A a \in AllocIds :
            ManageReadsRule(a) =>
               /\ rule' = rule
               /\ (alloc[a].activeCount > 0 /\ rule = "ENABLED") =>
                     alloc'[a].pc = "returned" /\ alloc'[a].ruleCall = "keptEnabled"
               /\ (alloc[a].activeCount = 0 /\ rule = "DISABLED") =>
                     alloc'[a].pc = "returned" /\ alloc'[a].ruleCall = "keptDisabled"]_vars

\* A pass that found no record left has returned without a call, the
\* rule having been disabled before it looked.
C29_FoundDisabled ==
    /\ sync.pc = "returned"
    /\ sync.validated = "zero"
    /\ sync.ruleCall = "none"
    /\ rule = "DISABLED"

\* C30: the rule is enabled by stack-deployer only and disabled by
\* stack-sync only: no stack-deployer invocation goes on to a disable
\* call, no pass goes on to an enable call, and a step that changes the
\* rule is a deployer's step when it enables and a pass's step when it
\* disables.
C30_EnableAndDisableApart ==
    [][/\ \A a \in AllocIds :
            alloc'[a].pc = "setrule" =>
               ManageDecision(alloc'[a].activeCount, alloc'[a].ruleSeen) = "enable"
       /\ sync'.pc = "setrule" => EnsureDisabledDecision(sync'.ruleSeen) = "disable"
       /\ rule' # rule =>
            IF rule' = "ENABLED" THEN sync' = sync /\ alloc' # alloc
            ELSE alloc' = alloc /\ sync' # sync]_vars

\* The response is a throttling or a transient unavailability.
Transient(o) ==
    \/ o.kind \in {"network", "abort"}
    \/ o.kind = "response" /\ o.status \in {429, 500, 503}

\* The response is an access-denied or a validation error.
Denied(o) == o.kind = "response" /\ o.status \in {400, 403}

\* withRetry goes on to another attempt in this step.
Retries == client.pc = "call" /\ client'.pc = "call"

\* C31: withRetry makes at most maxAttempts attempts, waits
\* min(baseDelay * 2^(attempt - 1), maxDelay) before the next one, retries
\* only after a throttling or a transient unavailability, and gives up at
\* once on an access-denied or a validation error.
C31_RetryPolicy ==
    [][client.pc = "call" =>
          /\ client'.attempt <= client'.maxAttempts
          /\ Retries =>
                /\ client'.attempt = client.attempt + 1
                /\ client'.delays =
                      Append(client.delays,
                             Min(client.baseDelay * Pow2(client.attempt - 1),
                                 client.maxDelay))
                /\ Transient(client'.last)
          /\ Denied(client'.last) => client'.pc = "raised" /\ client'.attempt = client.attempt]_vars

\* No handler invocation is under way.
NothingInFlight ==
    /\ \A a \in AllocIds : AllocEnded(a)
    /\ SyncEnded
    /\ DelEnded

\* C32: with no invocation under way and no call having failed, the rule
\* is ENABLED whenever some record is not AVAILABLE.
C32_EnabledWhileLinked ==
    (/\ NothingInFlight
     /\ budget.faults = InitBudget.faults
     /\ \E id \in Pool : rec[id]["status"] # "AVAILABLE")
    => rule = "ENABLED"

\* C33: the outputs stored in a record are those of the stack the record
\* references by its stackArn, never those obtained by describing a stack
\* the record has ceased to reference.
C33_OutputsOfCurrentStack ==
    \A id \in Pool :
        (Has(rec[id], "stackArn") /\ Has(rec[id], "outputs")) =>
            rec[id]["outputs"] = StackOutputs(rec[id]["stackArn"])

\* The record step of stack-sync meets a record without stackArn in this
\* step.
SyncSkips(id) ==
    /\ sync.pc = "describe"
    /\ sync' # sync
    /\ sync.snapshot[sync.idx]["guid"] = id
    /\ ~Has(sync.snapshot[sync.idx], "stackArn")

\* C34: the record step for a record that is not AVAILABLE and has no
\* stackArn calls nothing and writes nothing, counts as a successful sync,
\* and the pass goes on; the record keeps its status.
C34_SkippedUntouched ==
    [][\A id \in Pool :
          SyncSkips(id) =>
             /\ rec' = rec /\ stacks' = stacks /\ rule' = rule
             /\ budget'.faults = budget.faults
             /\ sync'.successfulSyncs = sync.successfulSyncs + 1
             /\ sync'.failedSyncs = sync.failedSyncs
             /\ sync'.errors = sync.errors
             /\ PassGoesOn]_vars

\* A pass has skipped the only record it read, which is not AVAILABLE and
\* has no stackArn.
C34_SkippedOnce ==
    /\ sync.pc = "validate"
    /\ sync.totalProcessed = 1 /\ sync.successfulSyncs = 1
    /\ ~Has(sync.snapshot[1], "stackArn")
    /\ LET id == sync.snapshot[1]["guid"]
       IN rec[id]["status"] # "AVAILABLE" /\ ~Has(rec[id], "stackArn")

\* C35: the summary a stack-sync invocation returns has totalProcessed =
\* successfulSyncs + failedSyncs and as many entries in errors as
\* failedSyncs, also when the read of the records failed.
C35_SummaryAddsUp ==
    sync.pc = "returned" =>
       /\ sync.totalProcessed = sync.successfulSyncs + sync.failedSyncs
       /\ Len(sync.errors) = sync.failedSyncs

\* C36: an answered lookup whose reads succeeded has outputs only when the
\* status it read is CREATE_COMPLETE or UPDATE_COMPLETE; for a linked code
\* read in a failed or rollback-complete status it fails with
\* STACK_ERROR_STATE, and for a linked code read in any other status it
\* returns no outputs.
LookupAnswered ==
    /\ lookup.pc \in {"returned", "raised"}
    /\ lookup.error \notin {"INVALID_ACCESS_CODE_FORMAT", "DYNAMODB_ERROR"}

ReadLinked == DOMAIN lookup.record # {} /\ IsActiveStack(lookup.record)

C36_OutputsByStatus ==
    LookupAnswered =>
       /\ lookup.outputs # <<>> =>
             /\ lookup.pc = "returned"
             /\ ReadLinked
             /\ lookup.record["status"] \in {"CREATE_COMPLETE", "UPDATE_COMPLETE"}
       /\ (ReadLinked /\ lookup.isValid) =>
             LET status == lookup.record["status"]
             IN IF status \in {"CREATE_COMPLETE", "UPDATE_COMPLETE"}
                THEN lookup.pc = "returned"
                ELSE IF status \in FailureTerminalStates
                THEN lookup.pc = "raised" /\ lookup.error = "STACK_ERROR_STATE"
                ELSE lookup.pc = "returned" /\ lookup.outputs = <<>>

C36_ErrorStateRefused ==
    /\ lookup.pc = "raised"
    /\ lookup.error = "STACK_ERROR_STATE"
    /\ ReadLinked
    /\ lookup.record["status"] = "ROLLBACK_COMPLETE"
    /\ lookup.outputs = <<>>

\* C37: a lookup whose read succeeded answers 404 STACK_NOT_FOUND with the
\* same message whether the code is malformed, is not in the pool, or is
\* in the pool without a stack.
NoStackFor(l) ==
    \/ ~uuidRegex(l.code)
    \/ l.code \notin Pool
    \/ ~IsActiveStack(l.record)

C37_SameNotFound ==
    (lookup.pc \in {"returned", "raised"} /\ lookup.error # "DYNAMODB_ERROR"
       /\ NoStackFor(lookup)) =>
       /\ lookup.pc = "raised"
       /\ lookup.statusCode = 404
       /\ lookup.error = "STACK_NOT_FOUND"
       /\ lookup.message = "No stack found with the specified Access Code."

====
